---- MODULE Spec2Model ----
(***************************************************************************)
(* Model of myshell.c: the command dispatcher of an interactive shell.     *)
(* The shell process and the children it forks are processes with a        *)
(* descriptor table, two signal dispositions and a program counter; the    *)
(* kernel objects they share are one anonymous pipe and the file system.   *)
(* System calls that can fail (fork, pipe, signal, dup2, open, execvp,     *)
(* waitpid) choose their outcome nondeterministically.                     *)
(***************************************************************************)
EXTENDS Integers, Sequences, FiniteSets, TLC

VARIABLES
    sh,        \* the shell process: [pc, fds, sigint, sigchld, status, prepare_ret,
               \* finalize_ret]; prepare_ret is 1 until prepare has returned (it returns
               \* 0 or -1), finalize_ret is 1 until finalize has returned
    orig,      \* the argument vector handed to process_arglist (tokens 0..n-1 at 1..n)
    cmd_args,  \* the shell's cmd_args array, indices 0..n, slot n the terminator
    frame,     \* locals of the running dispatch: num_args, index, pipefd, child pids
    procs,     \* process table of the children, by pid
    pipeBuf,   \* bytes in the pipe created by the running dispatch
    fs,        \* the file system: name -> [exists, data]
    hist       \* what the running dispatch did so far (handlers, failures, waits, return)

vars == <<sh, orig, cmd_args, frame, procs, pipeBuf, fs, hist>>

----------------------------------------------------------------------------
(* Bounds of the model *)

MaxArgs == 4     \* longest enumerated argument vector
MaxProcs == 2    \* processes the system lets the shell have at one time
MaxBytes == 2    \* bytes a command writes to its standard output
MaxPipeArgs == 2 \* longest enumerated pipeline under fair scheduling

----------------------------------------------------------------------------
(* Tokens and argument vectors *)

NULL == "NULL"            \* the null pointer terminating the vector
JUNK == "JUNK"            \* what a read outside the array may yield
Markers == {"|", ">", "&"}
WordAt == <<"a", "b", "c", "d", "e", "f">>
TokensAt(k) == {WordAt[k]} \cup Markers

RECURSIVE VectorsOfLen(_)
VectorsOfLen(n) ==
    IF n = 0 THEN {<< >>}
    ELSE {Append(v, t) : v \in VectorsOfLen(n - 1), t \in TokensAt(n)}

\* the command lines the specification gives as examples
Examples ==
    { <<"printf", "hi", "|", "cat">>,
      <<"echo", "ok", ">", "/tmp/out">>,
      <<"a", "|", "b", ">", "c">> }

Vectors == UNION {VectorsOfLen(n) : n \in 1..MaxArgs} \cup Examples

Range(s) == {s[i] : i \in 1..Len(s)}

FileNames == UNION {Range(v) : v \in Vectors} \cup {JUNK}

\* the array the caller passes: tokens at 0..n-1, NULL at n
ArgArray(v) == [i \in 0..Len(v) |-> IF i < Len(v) THEN v[i + 1] ELSE NULL]

InBounds(args, i) == i \in DOMAIN args

\* cmd_args[i] = x; a store outside the array leaves the array as it was
Store(args, i, x) == IF InBounds(args, i) THEN [args EXCEPT ![i] = x] ELSE args

\* the values cmd_args[i] can yield; outside the array anything
Load(args, i) == IF InBounds(args, i) THEN {args[i]} ELSE {NULL, JUNK}

\* the argument list execvp reads from cmd_args + start up to the terminator
RECURSIVE ArgvFrom(_, _)
ArgvFrom(args, start) ==
    IF ~InBounds(args, start) \/ args[start] = NULL THEN << >>
    ELSE <<args[start]>> \o ArgvFrom(args, start + 1)

----------------------------------------------------------------------------
(* Descriptors *)

Fds == 0..4
STDIN_FILENO == 0
STDOUT_FILENO == 1

InitFds == [fd \in Fds |-> IF fd <= 2 THEN "tty" ELSE "closed"]
AllClosed == [fd \in Fds |-> "closed"]

LowestFree(fds) == CHOOSE fd \in Fds : fds[fd] = "closed" /\ \A g \in Fds : fds[g] = "closed" => fd <= g

close(fds, fd) == [fds EXCEPT ![fd] = "closed"]
dup2(fds, old, new) == [fds EXCEPT ![new] = fds[old]]

----------------------------------------------------------------------------
(* Processes *)

Pids == 1..MaxProcs

NoProc ==
    [pc |-> "free", role |-> "none", image |-> << >>, arg |-> 0, fds |-> AllClosed,
     sigint |-> "dfl", sigchld |-> "dfl", status |-> "none", zombie |-> FALSE,
     execd |-> "no", name |-> NULL, argv |-> << >>, execIn |-> "closed",
     execOut |-> "closed", execSigint |-> "dfl", execSigchld |-> "dfl",
     fname |-> NULL, out |-> << >>, inp |-> << >>, eof |-> FALSE, ub |-> FALSE]

Live(p) == p.pc \notin {"free", "exited"}


NoFrame == [num_args |-> 0, index |-> -1, pipefd |-> <<-1, -1>>, pid_first |-> 0, pid_second |-> 0]

NoHist ==
    [called |-> << >>, forkFailed |-> FALSE, pipeFailed |-> FALSE, waits |-> << >>,
     returned |-> FALSE, ret |-> 1, ub |-> FALSE, forks |-> 0]

NoFile == [exists |-> FALSE, data |-> << >>]
OldFile == [exists |-> TRUE, data |-> <<9>>]

----------------------------------------------------------------------------
(* Process termination *)

\* exit(status): the process is gone and every descriptor it held is closed
exit(p, status) == [p EXCEPT !.pc = "exited", !.status = status, !.fds = AllClosed]

\* error_handling without the exit: the message is printed and the caller goes on
error_handling_NoExit(p) == p

\* perror(message); exit(EXIT_FAILURE)
error_handling(p) == exit(p, "EXIT_FAILURE")

\* the process is killed by a signal
Killed(p, sig) == [p EXCEPT !.pc = "exited", !.status = sig, !.fds = AllClosed]

\* no automatic reaping: a terminated child is a zombie until its parent waits for it
Notify_NoAutoReap(p) == [p EXCEPT !.zombie = TRUE]

\* a terminated child stays a zombie unless its parent ignores SIGCHLD or is gone
Notify(p) == [p EXCEPT !.zombie = (sh.pc # "exited" /\ sh.sigchld # "ign")]

----------------------------------------------------------------------------
(* prepare *)

\* prepare returning 0 although the SIGCHLD disposition was not installed
prepare_NoSigchld ==
    /\ sh.pc = "start"
    /\ sh' = [sh EXCEPT !.pc = "idle", !.sigint = "ign", !.prepare_ret = 0]
    /\ UNCHANGED <<orig, cmd_args, frame, procs, pipeBuf, fs, hist>>

\* the outcomes of the two sigaction calls: which of them fails, if any
prepare ==
    /\ sh.pc = "start"
    /\ \E failing \in {"none", "SIGINT", "SIGCHLD"} :
          sh' = CASE failing = "SIGINT" ->
                       [sh EXCEPT !.pc = "setup_failed", !.prepare_ret = -1]
                  [] failing = "SIGCHLD" ->
                       [sh EXCEPT !.pc = "setup_failed", !.sigint = "ign", !.prepare_ret = -1]
                  [] OTHER ->
                       [sh EXCEPT !.pc = "idle", !.sigint = "ign", !.sigchld = "ign",
                                  !.prepare_ret = 0]
    /\ UNCHANGED <<orig, cmd_args, frame, procs, pipeBuf, fs, hist>>

\* finalize, called by the shell between two commands when it shuts down: return 0
finalize ==
    /\ sh.pc = "idle"
    /\ sh' = [sh EXCEPT !.pc = "finalized", !.finalize_ret = 0]
    /\ UNCHANGED <<orig, cmd_args, frame, procs, pipeBuf, fs, hist>>

----------------------------------------------------------------------------
(* process_arglist: the classifier *)

\* a trailing "&" is overwritten by the terminator and the count decremented
StripBackground(args, num_args) ==
    IF num_args > 0 /\ args[num_args - 1] = "&"
    THEN [cmd_args |-> [args EXCEPT ![num_args - 1] = NULL],
          num_args |-> num_args - 1, background_flag |-> 1]
    ELSE [cmd_args |-> args, num_args |-> num_args, background_flag |-> 0]

\* the scan without its break statements: the last "|" and the last ">" are kept
ScanMarkers_NoBreak(args, num_args, i) ==
    LET Last(t) == IF \E k \in i..(num_args - 1) : args[k] = t
                   THEN CHOOSE k \in i..(num_args - 1) :
                            args[k] = t /\ \A j \in (k + 1)..(num_args - 1) : args[j] # t
                   ELSE -1
    IN  [pipe_index |-> Last("|"), redirect_index |-> Last(">")]

\* the scan for the first "|" or ">", from index i on; it breaks on the first hit
RECURSIVE ScanMarkers(_, _, _)
ScanMarkers(args, num_args, i) ==
    IF i >= num_args THEN [pipe_index |-> -1, redirect_index |-> -1]
    ELSE IF args[i] = "|" THEN [pipe_index |-> i, redirect_index |-> -1]
    ELSE IF args[i] = ">" THEN [pipe_index |-> -1, redirect_index |-> i]
    ELSE ScanMarkers(args, num_args, i + 1)

\* the handler choice with the background flag forgotten
SelectHandler_NoBackground(pipe_index, redirect_index, background_flag) ==
    IF pipe_index # -1 THEN "establish_pipe"
    ELSE IF redirect_index # -1 THEN "setup_output_redirection"
    ELSE "execute_sync"

\* the handler process_arglist calls
SelectHandler(pipe_index, redirect_index, background_flag) ==
    IF pipe_index # -1 THEN "establish_pipe"
    ELSE IF redirect_index # -1 THEN "setup_output_redirection"
    ELSE IF background_flag = 1 THEN "execute_async"
    ELSE "execute_sync"

\* the second argument of the call made to the handler
HandlerArg(handler, m, s) ==
    CASE handler = "establish_pipe" -> m.pipe_index
      [] handler = "setup_output_redirection" -> m.redirect_index
      [] handler = "execute_async" -> s.num_args
      [] OTHER -> 0

process_arglist ==
    /\ sh.pc = "idle"
    /\ ~hist.returned
    /\ \E v \in Vectors :
          LET s == StripBackground(ArgArray(v), Len(v))
              m == ScanMarkers(s.cmd_args, s.num_args, 0)
              h == SelectHandler(m.pipe_index, m.redirect_index, s.background_flag)
          IN  /\ orig' = v
              /\ cmd_args' = s.cmd_args
              /\ frame' = [NoFrame EXCEPT !.num_args = s.num_args,
                                          !.index = HandlerArg(h, m, s)]
              /\ sh' = [sh EXCEPT !.pc = h]
              /\ \E f \in (IF h = "setup_output_redirection" THEN {NoFile, OldFile}
                                                             ELSE {NoFile}) :
                    fs' = [name \in FileNames |-> f]
    /\ UNCHANGED <<procs, pipeBuf, hist>>

\* the caller takes the returned value and reads the next command line; the children
\* of the dispatch that returned, which the shell holds no reference to any more and
\* shares no pipe with, leave the model
next_command ==
    /\ sh.pc = "idle"
    /\ hist.returned
    /\ orig' = << >>
    /\ cmd_args' = ArgArray(<< >>)
    /\ frame' = NoFrame
    /\ procs' = [p \in Pids |-> NoProc]
    /\ pipeBuf' = << >>
    /\ fs' = [name \in FileNames |-> NoFile]
    /\ hist' = NoHist
    /\ sh' = sh

----------------------------------------------------------------------------
(* fork and waitpid *)

FreePids == {p \in Pids : procs[p].pc = "free"}
NewPid == CHOOSE p \in FreePids : \A q \in FreePids : p <= q

\* the child fork creates: a copy of the shell's memory, descriptors and dispositions
Child(role, pc, arg, image) ==
    [NoProc EXCEPT !.pc = pc, !.role = role, !.image = image, !.arg = arg,
                   !.fds = sh.fds, !.sigint = sh.sigint, !.sigchld = sh.sigchld]

\* a waitpid that does not block: it reports the child gone while it still runs
WaitOutcomes_NoBlock(pid) == {"ECHILD", "EINTR", "EINVAL"}

\* what waitpid(pid, ..., 0) can return now: it blocks while the child runs, returns
\* the pid of a zombie, fails with ECHILD when the child was reaped already, and can
\* fail with EINTR or with another error at any time
WaitOutcomes(pid) ==
    (IF procs[pid].pc = "exited"
     THEN {IF procs[pid].zombie THEN "OK" ELSE "ECHILD"} ELSE {})
    \cup {"EINTR", "EINVAL"}

\* waitpid(...) == -1 && errno != ECHILD && errno != EINTR
WaitFailed(e) == e # "OK" /\ e # "ECHILD" /\ e # "EINTR"

Reap(pid, e) == IF e = "OK" THEN [procs EXCEPT ![pid].zombie = FALSE] ELSE procs

----------------------------------------------------------------------------
(* execute_sync *)

\* the dispositions reset before the fork, in the shell
execute_sync_ResetBeforeFork ==
    /\ sh.pc = "execute_sync"
    /\ \/ /\ sh' = error_handling([sh EXCEPT !.sigint = "dfl", !.sigchld = "dfl"])
          /\ hist' = [hist EXCEPT !.called = Append(@, "execute_sync"), !.forkFailed = TRUE]
          /\ UNCHANGED <<procs, frame>>
       \/ /\ FreePids # {}
          /\ procs' = [procs EXCEPT ![NewPid] = Child("sync", "signals", 0, cmd_args)]
          /\ frame' = [frame EXCEPT !.pid_first = NewPid]
          /\ sh' = [sh EXCEPT !.pc = "execute_sync_wait", !.sigint = "dfl", !.sigchld = "dfl"]
          /\ hist' = [hist EXCEPT !.called = Append(@, "execute_sync"), !.forks = @ + 1]
    /\ UNCHANGED <<orig, cmd_args, pipeBuf, fs>>

\* fork; the child goes on to its signal calls, the shell to its waitpid
execute_sync ==
    /\ sh.pc = "execute_sync"
    /\ \/ /\ sh' = error_handling(sh)
          /\ hist' = [hist EXCEPT !.called = Append(@, "execute_sync"), !.forkFailed = TRUE]
          /\ UNCHANGED <<procs, frame>>
       \/ /\ FreePids # {}
          /\ procs' = [procs EXCEPT ![NewPid] = Child("sync", "signals", 0, cmd_args)]
          /\ frame' = [frame EXCEPT !.pid_first = NewPid]
          /\ sh' = [sh EXCEPT !.pc = "execute_sync_wait"]
          /\ hist' = [hist EXCEPT !.called = Append(@, "execute_sync"), !.forks = @ + 1]
    /\ UNCHANGED <<orig, cmd_args, pipeBuf, fs>>

\* execute_sync returning 1 without the waitpid call
execute_sync_wait_NoWait ==
    /\ sh.pc = "execute_sync_wait"
    /\ sh' = [sh EXCEPT !.pc = "idle"]
    /\ hist' = [hist EXCEPT !.returned = TRUE, !.ret = 1]
    /\ UNCHANGED <<orig, cmd_args, frame, procs, pipeBuf, fs>>

execute_sync_wait ==
    /\ sh.pc = "execute_sync_wait"
    /\ \E e \in WaitOutcomes(frame.pid_first) :
          /\ procs' = Reap(frame.pid_first, e)
          /\ IF WaitFailed(e)
             THEN /\ sh' = error_handling(sh)
                  /\ hist' = [hist EXCEPT !.waits = Append(@, e)]
             ELSE /\ sh' = [sh EXCEPT !.pc = "idle"]
                  /\ hist' = [hist EXCEPT !.waits = Append(@, e), !.returned = TRUE, !.ret = 1]
    /\ UNCHANGED <<orig, cmd_args, frame, pipeBuf, fs>>

----------------------------------------------------------------------------
(* execute_async and execute_child *)

execute_async ==
    /\ sh.pc = "execute_async"
    /\ \/ /\ sh' = error_handling(sh)
          /\ hist' = [hist EXCEPT !.called = Append(@, "execute_async"), !.forkFailed = TRUE]
          /\ UNCHANGED <<procs, frame>>
       \/ /\ FreePids # {}
          /\ procs' = [procs EXCEPT ![NewPid] = Child("async", "execute_child", frame.index, cmd_args)]
          /\ frame' = [frame EXCEPT !.pid_first = NewPid]
          /\ sh' = [sh EXCEPT !.pc = "idle"]
          /\ hist' = [hist EXCEPT !.called = Append(@, "execute_async"), !.forks = @ + 1,
                                  !.returned = TRUE, !.ret = 1]
    /\ UNCHANGED <<orig, cmd_args, pipeBuf, fs>>

\* execute_child, in the background child: the store at num_args - 1, then signal
execute_child(c) ==
    /\ procs[c].pc = "execute_child"
    /\ LET p == procs[c]
           q == [p EXCEPT !.image = Store(p.image, p.arg - 1, NULL),
                          !.ub = ~InBounds(p.image, p.arg - 1)]
       IN  \/ procs' = [procs EXCEPT ![c] = [q EXCEPT !.sigchld = "dfl", !.pc = "exec"]]
           \/ procs' = [procs EXCEPT ![c] = Notify(error_handling(q))]
           \/ /\ q.ub
              /\ procs' = [procs EXCEPT ![c] = Notify(Killed(q, "SIGSEGV"))]
    /\ UNCHANGED <<sh, orig, cmd_args, frame, pipeBuf, fs, hist>>

----------------------------------------------------------------------------
(* The steps of a child up to execvp *)

\* only the SIGCHLD disposition is reset
set_child_signal_handling_OnlySigchld(p) == [p EXCEPT !.sigchld = "dfl"]

\* signal(SIGINT, SIG_DFL); signal(SIGCHLD, SIG_DFL), both succeeding
set_child_signal_handling(p) == [p EXCEPT !.sigint = "dfl", !.sigchld = "dfl"]

AfterSignals(role) ==
    CASE role = "sync" -> "exec"
      [] role = "redirected" -> "open"
      [] OTHER -> "redirect"

\* the signal calls of a foreground, piped or redirected child; SIG_ERR ends the child
child_signals(c) ==
    /\ procs[c].pc = "signals"
    /\ LET p == procs[c]
       IN  \/ procs' = [procs EXCEPT ![c] =
                 [set_child_signal_handling(p) EXCEPT !.pc = AfterSignals(p.role)]]
           \/ procs' = [procs EXCEPT ![c] = Notify(error_handling(p))]
    /\ UNCHANGED <<sh, orig, cmd_args, frame, pipeBuf, fs, hist>>

\* the write end closed without having been duplicated onto standard output
redirect_stdout_to_pipe_NoDup(fds, pipefd_write) == close(fds, pipefd_write)

\* dup2(pipefd_write, STDOUT_FILENO); close(pipefd_write)
redirect_stdout_to_pipe(fds, pipefd_write) ==
    close(dup2(fds, pipefd_write, STDOUT_FILENO), pipefd_write)

\* dup2(pipefd_read, STDIN_FILENO); close(pipefd_read)
redirect_stdin_from_pipe(fds, pipefd_read) ==
    close(dup2(fds, pipefd_read, STDIN_FILENO), pipefd_read)

\* only the read end closed
close_pipe_ends_ReadOnly(fds, pipefd) == close(fds, pipefd[1])

\* close(pipefd[0]); close(pipefd[1])
close_pipe_ends(fds, pipefd) == close(close(fds, pipefd[1]), pipefd[2])

\* a second child that binds the read end without closing its copy of the write end
child_redirect_KeepsWriteEnd(c) ==
    /\ procs[c].pc = "redirect"
    /\ LET p == procs[c]
           fds == IF p.role = "first"
                  THEN redirect_stdout_to_pipe(close(p.fds, frame.pipefd[1]), frame.pipefd[2])
                  ELSE redirect_stdin_from_pipe(p.fds, frame.pipefd[1])
       IN  \/ procs' = [procs EXCEPT ![c] = [p EXCEPT !.fds = fds, !.pc = "exec"]]
           \/ procs' = [procs EXCEPT ![c] = Notify(error_handling(p))]
    /\ UNCHANGED <<sh, orig, cmd_args, frame, pipeBuf, fs, hist>>

\* a piped child closes the end it does not use and binds the other; a failed dup2
\* ends the child
child_redirect(c) ==
    /\ procs[c].pc = "redirect"
    /\ LET p == procs[c]
           fds == IF p.role = "first"
                  THEN redirect_stdout_to_pipe(close(p.fds, frame.pipefd[1]), frame.pipefd[2])
                  ELSE redirect_stdin_from_pipe(close(p.fds, frame.pipefd[2]), frame.pipefd[1])
       IN  \/ procs' = [procs EXCEPT ![c] = [p EXCEPT !.fds = fds, !.pc = "exec"]]
           \/ procs' = [procs EXCEPT ![c] = Notify(error_handling(p))]
    /\ UNCHANGED <<sh, orig, cmd_args, frame, pipeBuf, fs, hist>>

\* open(filename, O_WRONLY | O_CREAT | O_TRUNC, 0777) on the file f
OpenFile(f) == [exists |-> TRUE, data |-> << >>]

\* open_and_redirect_file(cmd_args[num_args - 1]) in the redirected child
open_and_redirect_file(c) ==
    /\ procs[c].pc = "open"
    /\ LET p == procs[c]
           oob == ~InBounds(p.image, p.arg - 1)
       IN  \E filename \in Load(p.image, p.arg - 1) :
              LET fd == LowestFree(p.fds)
                  q == [p EXCEPT !.ub = oob, !.fname = filename]
              IN  \/ \* open fails
                     /\ procs' = [procs EXCEPT ![c] = Notify(error_handling([p EXCEPT !.ub = oob]))]
                     /\ fs' = fs
                  \/ \* open succeeds, dup2 fails
                     /\ filename # NULL
                     /\ fs' = [fs EXCEPT ![filename] = OpenFile(@)]
                     /\ procs' = [procs EXCEPT ![c] = Notify(error_handling(q))]
                  \/ \* both succeed
                     /\ filename # NULL
                     /\ fs' = [fs EXCEPT ![filename] = OpenFile(@)]
                     /\ procs' = [procs EXCEPT ![c] =
                           [q EXCEPT !.pc = "exec",
                                     !.fds = close(dup2([p.fds EXCEPT ![fd] = "file"], fd, 1), fd)]]
    /\ UNCHANGED <<sh, orig, cmd_args, frame, pipeBuf, hist>>

\* the index of the program name in the child's array
ExecStart(p) == IF p.role = "second" THEN p.arg + 1 ELSE 0

\* execvp whose failure is not followed by an exit: the child goes on in the code
\* after the call
child_exec_NoExit(c) ==
    /\ procs[c].pc = "exec"
    /\ LET p == procs[c]
           start == ExecStart(p)
           q == [p EXCEPT !.name = p.image[start], !.argv = ArgvFrom(p.image, start),
                          !.execIn = p.fds[STDIN_FILENO], !.execOut = p.fds[STDOUT_FILENO],
                          !.execSigint = p.sigint, !.execSigchld = p.sigchld]
       IN  \/ /\ q.name # NULL
              /\ procs' = [procs EXCEPT ![c] = [q EXCEPT !.pc = "run", !.execd = "ok"]]
           \/ procs' = [procs EXCEPT ![c] = [q EXCEPT !.execd = "failed"]]
    /\ UNCHANGED <<sh, orig, cmd_args, frame, pipeBuf, fs, hist>>

\* execvp(cmd_args[start], cmd_args + start): on success the program runs with the
\* descriptors and dispositions the child has now; on failure error_handling ends
\* the child; a null program name is dereferenced by execvp
child_exec(c) ==
    /\ procs[c].pc = "exec"
    /\ LET p == procs[c]
           start == ExecStart(p)
           q == [p EXCEPT !.name = p.image[start], !.argv = ArgvFrom(p.image, start),
                          !.execIn = p.fds[STDIN_FILENO], !.execOut = p.fds[STDOUT_FILENO],
                          !.execSigint = p.sigint, !.execSigchld = p.sigchld]
       IN  \/ /\ q.name # NULL
              /\ procs' = [procs EXCEPT ![c] = [q EXCEPT !.pc = "run", !.execd = "ok"]]
           \/ procs' = [procs EXCEPT ![c] = Notify(error_handling([q EXCEPT !.execd = "failed"]))]
           \/ /\ q.name = NULL
              /\ procs' = [procs EXCEPT ![c] =
                              Notify(Killed([q EXCEPT !.execd = "crashed", !.ub = TRUE], "SIGSEGV"))]
    /\ UNCHANGED <<sh, orig, cmd_args, frame, pipeBuf, fs, hist>>

----------------------------------------------------------------------------
(* The programs the children exec, and the pipe *)

\* the processes, the shell included ("shell"), that hold a descriptor of kind k
Holders(k) ==
    {c \in Pids : Live(procs[c]) /\ \E fd \in Fds : procs[c].fds[fd] = k}
    \cup (IF \E fd \in Fds : sh.fds[fd] = k THEN {0} ELSE {})

\* the left or redirected command writes its next byte to standard output; a write to
\* a pipe nobody can read raises SIGPIPE
prog_write(c) ==
    /\ procs[c].pc = "run"
    /\ procs[c].role \in {"first", "redirected"}
    /\ Len(procs[c].out) < MaxBytes
    /\ LET p == procs[c]
           b == Len(p.out) + 1
           q == [p EXCEPT !.out = Append(@, b)]
       IN  CASE p.fds[STDOUT_FILENO] = "pipeW" /\ Holders("pipeR") = {} ->
                  /\ procs' = [procs EXCEPT ![c] = Notify(Killed(p, "SIGPIPE"))]
                  /\ UNCHANGED <<pipeBuf, fs>>
             [] p.fds[STDOUT_FILENO] = "pipeW" /\ Holders("pipeR") # {} ->
                  /\ procs' = [procs EXCEPT ![c] = q]
                  /\ pipeBuf' = Append(pipeBuf, b)
                  /\ fs' = fs
             [] p.fds[STDOUT_FILENO] = "file" ->
                  /\ procs' = [procs EXCEPT ![c] = q]
                  /\ fs' = [fs EXCEPT ![p.fname].data = Append(@, b)]
                  /\ pipeBuf' = pipeBuf
             [] OTHER ->
                  /\ procs' = [procs EXCEPT ![c] = q]
                  /\ UNCHANGED <<pipeBuf, fs>>
    /\ UNCHANGED <<sh, orig, cmd_args, frame, hist>>

\* a command whose standard input is the pipe reads the next byte, or sees
\* end-of-stream once the pipe is empty and no process holds its write end
prog_read(c) ==
    /\ procs[c].pc = "run"
    /\ procs[c].fds[STDIN_FILENO] = "pipeR"
    /\ ~procs[c].eof
    /\ IF pipeBuf # << >>
       THEN /\ procs' = [procs EXCEPT ![c].inp = Append(@, Head(pipeBuf))]
            /\ pipeBuf' = Tail(pipeBuf)
       ELSE /\ Holders("pipeW") = {}
            /\ procs' = [procs EXCEPT ![c].eof = TRUE]
            /\ pipeBuf' = pipeBuf
    /\ UNCHANGED <<sh, orig, cmd_args, frame, fs, hist>>

\* the program ends with some exit status
prog_exit(c) ==
    /\ procs[c].pc = "run"
    /\ \E status \in {"EXIT_SUCCESS", "EXIT_FAILURE"} :
          procs' = [procs EXCEPT ![c] = Notify(exit(@, status))]
    /\ UNCHANGED <<sh, orig, cmd_args, frame, pipeBuf, fs, hist>>

----------------------------------------------------------------------------
(* establish_pipe *)

\* cmd_args[index] = NULL; pipe(pipefd)
establish_pipe ==
    /\ sh.pc = "establish_pipe"
    /\ cmd_args' = Store(cmd_args, frame.index, NULL)
    /\ \/ /\ sh' = error_handling(sh)
          /\ hist' = [hist EXCEPT !.called = Append(@, "establish_pipe"), !.pipeFailed = TRUE]
          /\ frame' = frame
       \/ LET r == LowestFree(sh.fds)
              w == LowestFree([sh.fds EXCEPT ![r] = "pipeR"])
          IN  /\ sh' = [sh EXCEPT !.pc = "establish_pipe_fork_first",
                                  !.fds = [sh.fds EXCEPT ![r] = "pipeR", ![w] = "pipeW"]]
              /\ frame' = [frame EXCEPT !.pipefd = <<r, w>>]
              /\ hist' = [hist EXCEPT !.called = Append(@, "establish_pipe")]
    /\ UNCHANGED <<orig, procs, pipeBuf, fs>>

establish_pipe_fork_first ==
    /\ sh.pc = "establish_pipe_fork_first"
    /\ \/ /\ sh' = error_handling(sh)
          /\ hist' = [hist EXCEPT !.forkFailed = TRUE]
          /\ UNCHANGED <<procs, frame>>
       \/ /\ FreePids # {}
          /\ procs' = [procs EXCEPT ![NewPid] = Child("first", "signals", frame.index, cmd_args)]
          /\ frame' = [frame EXCEPT !.pid_first = NewPid]
          /\ sh' = [sh EXCEPT !.pc = "establish_pipe_fork_second"]
          /\ hist' = [hist EXCEPT !.forks = @ + 1]
    /\ UNCHANGED <<orig, cmd_args, pipeBuf, fs>>

establish_pipe_fork_second ==
    /\ sh.pc = "establish_pipe_fork_second"
    /\ \/ /\ sh' = error_handling(sh)
          /\ hist' = [hist EXCEPT !.forkFailed = TRUE]
          /\ UNCHANGED <<procs, frame>>
       \/ /\ FreePids # {}
          /\ procs' = [procs EXCEPT ![NewPid] = Child("second", "signals", frame.index, cmd_args)]
          /\ frame' = [frame EXCEPT !.pid_second = NewPid]
          /\ sh' = [sh EXCEPT !.pc = "establish_pipe_close"]
          /\ hist' = [hist EXCEPT !.forks = @ + 1]
    /\ UNCHANGED <<orig, cmd_args, pipeBuf, fs>>

\* the shell going on to its waits with both pipe ends still open
establish_pipe_close_NoClose ==
    /\ sh.pc = "establish_pipe_close"
    /\ sh' = [sh EXCEPT !.pc = "establish_pipe_wait_first"]
    /\ UNCHANGED <<orig, cmd_args, frame, procs, pipeBuf, fs, hist>>

\* close_pipe_ends(pipefd) in the shell, after both forks
establish_pipe_close ==
    /\ sh.pc = "establish_pipe_close"
    /\ sh' = [sh EXCEPT !.pc = "establish_pipe_wait_first",
                        !.fds = close_pipe_ends(sh.fds, frame.pipefd)]
    /\ UNCHANGED <<orig, cmd_args, frame, procs, pipeBuf, fs, hist>>

\* wait_and_handle_error(child_pid, message), then what its caller does with the
\* result: return 0 on failure, go on to next otherwise (return 1 when next is "idle")
wait_and_handle_error(child_pid, next) ==
    \E e \in WaitOutcomes(child_pid) :
        /\ procs' = Reap(child_pid, e)
        /\ IF WaitFailed(e)
           THEN /\ sh' = [sh EXCEPT !.pc = "idle"]
                /\ hist' = [hist EXCEPT !.waits = Append(@, e), !.returned = TRUE, !.ret = 0]
           ELSE /\ sh' = [sh EXCEPT !.pc = next]
                /\ hist' = [hist EXCEPT !.waits = Append(@, e),
                                        !.returned = (next = "idle"), !.ret = 1]

establish_pipe_wait_first ==
    /\ sh.pc = "establish_pipe_wait_first"
    /\ wait_and_handle_error(frame.pid_first, "establish_pipe_wait_second")
    /\ UNCHANGED <<orig, cmd_args, frame, pipeBuf, fs>>

establish_pipe_wait_second ==
    /\ sh.pc = "establish_pipe_wait_second"
    /\ wait_and_handle_error(frame.pid_second, "idle")
    /\ UNCHANGED <<orig, cmd_args, frame, pipeBuf, fs>>

----------------------------------------------------------------------------
(* setup_output_redirection *)

\* cmd_args[num_args - 2] = NULL, num_args being the index of ">"; then fork.
\* A store in front of the array either goes unnoticed or kills the shell.
setup_output_redirection ==
    /\ sh.pc = "setup_output_redirection"
    /\ cmd_args' = Store(cmd_args, frame.index - 2, NULL)
    /\ LET oob == ~InBounds(cmd_args, frame.index - 2)
           h == [hist EXCEPT !.called = Append(@, "setup_output_redirection"), !.ub = oob]
       IN  \/ /\ sh' = error_handling(sh)
              /\ hist' = [h EXCEPT !.forkFailed = TRUE]
              /\ UNCHANGED <<procs, frame>>
           \/ /\ oob
              /\ sh' = Killed(sh, "SIGSEGV")
              /\ hist' = h
              /\ UNCHANGED <<procs, frame>>
           \/ /\ FreePids # {}
              /\ procs' = [procs EXCEPT ![NewPid] =
                              Child("redirected", "signals", frame.index, cmd_args')]
              /\ frame' = [frame EXCEPT !.pid_first = NewPid]
              /\ sh' = [sh EXCEPT !.pc = "setup_output_redirection_wait"]
              /\ hist' = [h EXCEPT !.forks = @ + 1]
    /\ UNCHANGED <<orig, pipeBuf, fs>>

setup_output_redirection_wait ==
    /\ sh.pc = "setup_output_redirection_wait"
    /\ wait_and_handle_error(frame.pid_first, "idle")
    /\ UNCHANGED <<orig, cmd_args, frame, pipeBuf, fs>>

----------------------------------------------------------------------------
(* The system *)

Init ==
    /\ sh = [pc |-> "start", fds |-> InitFds, sigint |-> "dfl", sigchld |-> "dfl",
             status |-> "none", prepare_ret |-> 1, finalize_ret |-> 1]
    /\ orig = << >>
    /\ cmd_args = ArgArray(<< >>)
    /\ frame = NoFrame
    /\ procs = [p \in Pids |-> NoProc]
    /\ pipeBuf = << >>
    /\ fs = [name \in FileNames |-> NoFile]
    /\ hist = NoHist

ShellStep ==
    \/ prepare
    \/ process_arglist
    \/ next_command
    \/ execute_sync
    \/ execute_sync_wait
    \/ execute_async
    \/ establish_pipe
    \/ establish_pipe_fork_first
    \/ establish_pipe_fork_second
    \/ establish_pipe_close
    \/ establish_pipe_wait_first
    \/ establish_pipe_wait_second
    \/ setup_output_redirection
    \/ setup_output_redirection_wait
    \/ finalize

ChildStep(c) ==
    \/ child_signals(c)
    \/ execute_child(c)
    \/ child_redirect(c)
    \/ open_and_redirect_file(c)
    \/ child_exec(c)
    \/ prog_write(c)
    \/ prog_read(c)
    \/ prog_exit(c)

Next == ShellStep \/ \E c \in Pids : ChildStep(c)

Spec == Init /\ [][Next]_vars

\* The shell running pipelines only: the part of the program establish_pipe and its
\* two children make up, with the command lines that are dispatched to it.
PipelineDispatch ==
    /\ process_arglist
    /\ sh'.pc = "establish_pipe"
    /\ Len(orig') <= MaxPipeArgs \/ orig' \in Examples

PipelineShellStep ==
    \/ prepare
    \/ PipelineDispatch
    \/ next_command
    \/ establish_pipe
    \/ establish_pipe_fork_first
    \/ establish_pipe_fork_second
    \/ establish_pipe_close
    \/ establish_pipe_wait_first
    \/ establish_pipe_wait_second

PipelineChildStep(c) ==
    \/ child_signals(c)
    \/ child_redirect(c)
    \/ child_exec(c)
    \/ prog_write(c)
    \/ prog_read(c)
    \/ prog_exit(c)

PipelineNext == PipelineShellStep \/ \E c \in Pids : PipelineChildStep(c)

\* Fair scheduling of a pipeline. Every process that can run eventually does: a child
\* gets through its set-up and its execvp, and the shell through every call of
\* establish_pipe that does not block. The command of the first child terminates; the
\* command of the second child reads its standard input and terminates once it has
\* seen end-of-stream. A waitpid for a child that is gone returns. Nothing forces a
\* wait to be interrupted or to fail.
ChildProgress(c) ==
    \/ child_signals(c)
    \/ child_redirect(c)
    \/ child_exec(c)
    \/ prog_read(c)
    \/ prog_exit(c) /\ (procs[c].role = "first" \/ procs[c].eof)

ShellProgress ==
    \/ establish_pipe
    \/ establish_pipe_fork_first
    \/ establish_pipe_fork_second
    \/ establish_pipe_close
    \/ /\ establish_pipe_wait_first \/ establish_pipe_wait_second
       /\ hist'.waits[Len(hist'.waits)] \in {"OK", "ECHILD"}

PipelineFairSpec ==
    /\ Init
    /\ [][PipelineNext]_vars
    /\ WF_vars(ShellProgress)
    /\ \A c \in Pids : WF_vars(ChildProgress(c))

----------------------------------------------------------------------------
(* Vocabulary of the properties *)

\* the 0-based position of the first token t of v, or -1
IndexOf(v, t) ==
    IF \E i \in 1..Len(v) : v[i] = t
    THEN (CHOOSE i \in 1..Len(v) : v[i] = t /\ \A j \in 1..(i - 1) : v[j] # t) - 1
    ELSE -1

Count(v, t) == Cardinality({i \in 1..Len(v) : v[i] = t})

EndsInAmpersand(v) == Len(v) > 0 /\ v[Len(v)] = "&"

\* the vector without a trailing "&"
Command(v) == IF EndsInAmpersand(v) THEN SubSeq(v, 1, Len(v) - 1) ELSE v

IsPrefix(s, t) == Len(s) <= Len(t) /\ s = SubSeq(t, 1, Len(s))

ChildrenOf(role) == {c \in Pids : procs[c].role = role}

\* the child has called execvp (whether or not the call succeeded)
CalledExec(c) == procs[c].execd # "no"

WaitPcs ==
    {"execute_sync_wait", "establish_pipe_wait_first", "establish_pipe_wait_second",
     "setup_output_redirection_wait"}

\* the child the shell is blocked on in waitpid, or 0
WaitedPid ==
    CASE sh.pc = "establish_pipe_wait_second" -> frame.pid_second
      [] sh.pc \in WaitPcs -> frame.pid_first
      [] OTHER -> 0

Dispatched == orig # << >>

----------------------------------------------------------------------------
(* C1: redirected dispatch *)

C1_Case ==
    /\ Len(orig) >= 3
    /\ Count(orig, "|") = 0
    /\ IndexOf(orig, ">") = Len(orig) - 2

\* C1: when the first ">" is the token before last and there is no "|", the child
\* opens the file named by the last token, binds its standard output to it and execs
\* exactly the tokens before ">"; when the dispatch returns that file exists and holds
\* exactly what the command wrote to standard output.
C1_RedirectedDispatch ==
    C1_Case =>
        \A c \in ChildrenOf("redirected") :
            /\ CalledExec(c) =>
                  /\ procs[c].argv = SubSeq(orig, 1, Len(orig) - 2)
                  /\ procs[c].fname = orig[Len(orig)]
                  /\ procs[c].execOut = "file"
            /\ (hist.returned /\ procs[c].execd = "ok") =>
                  /\ fs[orig[Len(orig)]].exists
                  /\ fs[orig[Len(orig)]].data = procs[c].out

----------------------------------------------------------------------------
(* C2: background dispatch does not block *)

NeverWaitsNoAmpersand ==
    /\ sh.pc \notin WaitPcs
    /\ hist.waits = << >>
    /\ hist.forks > 0 => hist.returned
    /\ \A c \in Pids : "&" \notin Range(procs[c].argv)

\* C2 as stated: for every vector ending in "&", whatever the other tokens, the shell
\* never waits for a child of the dispatch and no exec'd program receives "&".
C2_BackgroundNeverBlocks == EndsInAmpersand(orig) => NeverWaitsNoAmpersand

\* the other tokens are all plain words
C2_PlainCase ==
    /\ EndsInAmpersand(orig)
    /\ \A i \in 1..(Len(orig) - 1) : orig[i] \notin Markers

\* C2 amended: for every vector ending in "&" whose other tokens are plain words, the
\* shell never waits for a child of the dispatch (once the fork has succeeded it has
\* returned) and no exec'd program receives "&".
C2_PlainBackgroundNeverBlocks == C2_PlainCase => NeverWaitsNoAmpersand

\* a plain background dispatch has returned while its child runs the program
C2_Witness ==
    /\ C2_PlainCase
    /\ hist.returned
    /\ \E c \in ChildrenOf("async") : procs[c].pc = "run" /\ procs[c].argv # << >>

----------------------------------------------------------------------------
(* C3: pipeline dispatch *)

\* what the two children must exec and be bound to, the right command being the tokens
\* after position i up to position last, and what the reader must see
PipelineAsClaimed(i, last) ==
    /\ \A c \in ChildrenOf("first") :
          CalledExec(c) =>
              /\ procs[c].argv = SubSeq(orig, 1, i)
              /\ procs[c].execOut = "pipeW"
    /\ \A c \in ChildrenOf("second") :
          CalledExec(c) =>
              /\ procs[c].argv = SubSeq(orig, i + 2, last + 1)
              /\ procs[c].execIn = "pipeR"
    /\ \A c \in ChildrenOf("first"), d \in ChildrenOf("second") :
          /\ IsPrefix(procs[d].inp, procs[c].out)
          /\ procs[d].eof => procs[d].inp = procs[c].out

\* C3 as stated: for every vector with exactly one "|", at position i, 0 < i < n-1, the
\* first child execs tokens 0..i-1 writing to the pipe, the second execs tokens
\* i+1..n-1 reading from it, and the second reads exactly the bytes the first wrote.
C3_PipelineDispatch ==
    (/\ Count(orig, "|") = 1
     /\ 0 < IndexOf(orig, "|")
     /\ IndexOf(orig, "|") < Len(orig) - 1)
    => PipelineAsClaimed(IndexOf(orig, "|"), Len(orig) - 1)

C3_Case ==
    /\ Count(orig, "|") = 1
    /\ 0 < IndexOf(orig, "|")
    /\ IndexOf(orig, "|") < Len(Command(orig)) - 1
    /\ IndexOf(orig, ">") = -1 \/ IndexOf(orig, "|") < IndexOf(orig, ">")

\* C3 amended: for every vector with exactly one "|", at position i, no ">" before it,
\* and 0 < i < m-1 where m counts the tokens without a trailing "&", the first child
\* execs tokens 0..i-1 writing to the pipe, the second execs tokens i+1..m-1 reading
\* from it, and the second reads exactly the bytes the first wrote.
C3_FirstMarkerPipeline ==
    C3_Case =>
        /\ hist.called # << >> => hist.called = <<"establish_pipe">>
        /\ PipelineAsClaimed(IndexOf(orig, "|"), Len(Command(orig)) - 1)

\* the right command has read every byte the left command wrote, then end-of-stream
C3_Witness ==
    /\ C3_Case
    /\ \E c \in ChildrenOf("first"), d \in ChildrenOf("second") :
          /\ procs[d].eof
          /\ Len(procs[d].inp) = MaxBytes
          /\ procs[d].inp = procs[c].out

----------------------------------------------------------------------------
(* C4: fork failure *)

\* C4: when a fork fails the shell process stays alive and process_arglist returns 0.
C4_ForkFailureIsLocal ==
    hist.forkFailed => (sh.pc = "idle" /\ hist.returned /\ hist.ret = 0)

----------------------------------------------------------------------------
(* C5: exec failure *)

ExecFailed(c) == procs[c].execd = "failed"

NoParentFailure ==
    /\ ~hist.forkFailed
    /\ ~hist.pipeFailed
    /\ \A i \in 1..Len(hist.waits) : ~WaitFailed(hist.waits[i])

\* C5: a child whose execvp failed has terminated with a non-zero status; the shell is
\* not terminated by it, a waitpid for that child does not block, and the dispatch
\* returns 1 when its forks and waits succeeded.
C5_ExecFailureStaysInChild ==
    \A c \in Pids :
        ExecFailed(c) =>
            /\ procs[c].pc = "exited"
            /\ procs[c].status \notin {"EXIT_SUCCESS", "none"}
            /\ NoParentFailure => sh.pc # "exited"
            /\ WaitedPid = c => WaitOutcomes(c) \cap {"OK", "ECHILD"} # {}
            /\ (hist.returned /\ NoParentFailure) => hist.ret = 1

\* the dispatch of an unknown program has returned 1, its child having exited with
\* EXIT_FAILURE
C5_Witness ==
    /\ hist.returned
    /\ hist.ret = 1
    /\ \E c \in Pids : ExecFailed(c) /\ procs[c].name # NULL /\ procs[c].status = "EXIT_FAILURE"

----------------------------------------------------------------------------
(* C6: foreground dispatch blocks until the child is gone *)

ReturnedFrom(handler) == hist.returned /\ hist.called = <<handler>>

\* C6 as stated: when execute_sync returns, the child it forked has exited, for every
\* outcome of waitpid after which it returns.
C6_ForegroundBlocksUntilChildGone ==
    ReturnedFrom("execute_sync") =>
        /\ frame.pid_first \in Pids
        /\ ~Live(procs[frame.pid_first])

\* C6 amended: when execute_sync returns, the child it forked has exited, whatever its
\* exit status, unless the waitpid call was interrupted (EINTR).
C6_ForegroundBlocksUnlessInterrupted ==
    (ReturnedFrom("execute_sync") /\ hist.waits # <<"EINTR">>) =>
        /\ frame.pid_first \in Pids
        /\ ~Live(procs[frame.pid_first])

\* execute_sync has returned after waiting for a command that ran and failed
C6_Witness ==
    /\ ReturnedFrom("execute_sync")
    /\ hist.waits = <<"ECHILD">>
    /\ procs[frame.pid_first].execd = "ok"
    /\ procs[frame.pid_first].status = "EXIT_FAILURE"

----------------------------------------------------------------------------
(* C7: no descriptor leak in the shell *)

\* C7: whenever a dispatch has returned, the shell's open descriptors are those it had
\* before (both pipe ends are closed), and the redirect target is never open in the
\* shell.
C7_NoDescriptorLeak ==
    /\ sh.pc = "idle" => sh.fds = InitFds
    /\ \A fd \in Fds : sh.fds[fd] # "file"

\* a pipeline dispatch that created a pipe and two children has returned
C7_Witness ==
    /\ ReturnedFrom("establish_pipe")
    /\ hist.forks = 2
    /\ frame.pipefd = <<3, 4>>
    /\ sh.fds = InitFds

----------------------------------------------------------------------------
(* C8: classifier tie-break *)

\* the handler the first marker of the vector asks for
ExpectedHandler(v) ==
    LET p == IndexOf(Command(v), "|")
        r == IndexOf(Command(v), ">")
    IN  IF p = -1 /\ r = -1
        THEN (IF EndsInAmpersand(v) THEN "execute_async" ELSE "execute_sync")
        ELSE IF r = -1 \/ (p # -1 /\ p < r) THEN "establish_pipe"
        ELSE "setup_output_redirection"

PipeCreated == \E k \in Pids \cup {0} : k \in Holders("pipeR") \cup Holders("pipeW")

\* C8: process_arglist calls exactly one handler, the one the first marker decides; a
\* pipeline dispatch never opens a redirect target (and a redirect creates no pipe).
C8_ClassifierTieBreak ==
    Dispatched =>
        /\ \/ hist.called = << >> /\ sh.pc = ExpectedHandler(orig)
           \/ hist.called = <<ExpectedHandler(orig)>>
        /\ ExpectedHandler(orig) = "establish_pipe" =>
              /\ ChildrenOf("redirected") = {}
              /\ \A name \in FileNames : ~fs[name].exists
        /\ ExpectedHandler(orig) = "setup_output_redirection" =>
              /\ ChildrenOf("first") \cup ChildrenOf("second") = {}
              /\ ~PipeCreated

\* the specification's example has run as a pipeline
C8_Witness ==
    /\ orig = <<"a", "|", "b", ">", "c">>
    /\ ReturnedFrom("establish_pipe")
    /\ \E d \in ChildrenOf("second") : procs[d].argv = <<"b", ">", "c">>

----------------------------------------------------------------------------
(* C9: tolerant wait *)

\* C9: in each waiting mode a waitpid that fails with ECHILD or EINTR lets the dispatch
\* go on to return 1, and one that fails with another cause makes it return 0 with the
\* shell alive.
C9_TolerantWaitUniform ==
    hist.waits # << >> =>
        LET e == hist.waits[Len(hist.waits)]
        IN  /\ e \in {"ECHILD", "EINTR"} => (sh.pc # "exited" /\ hist.ret = 1)
            /\ e \notin {"OK", "ECHILD", "EINTR"} =>
                  (sh.pc = "idle" /\ hist.returned /\ hist.ret = 0)

----------------------------------------------------------------------------
(* C10: background exec vector *)

\* C10: for a vector of n >= 2 tokens ending in "&" with no "|" or ">", the background
\* child execs exactly tokens 0..n-2.
C10_BackgroundExecVector ==
    (/\ Len(orig) >= 2
     /\ EndsInAmpersand(orig)
     /\ Count(orig, "|") = 0
     /\ Count(orig, ">") = 0)
    => \A c \in ChildrenOf("async") :
          CalledExec(c) => procs[c].argv = SubSeq(orig, 1, Len(orig) - 1)

----------------------------------------------------------------------------
(* C11: setup and teardown *)

BothIgnored == sh.sigint = "ign" /\ sh.sigchld = "ign"

\* what finalize may change: the caller's position and the value returned to it
FinalizeFrame ==
    (sh.pc # "finalized" /\ sh'.pc = "finalized") =>
        /\ sh'.finalize_ret = 0
        /\ sh' = [sh EXCEPT !.pc = "finalized", !.finalize_ret = 0]
        /\ UNCHANGED <<orig, cmd_args, frame, procs, pipeBuf, fs, hist>>

\* C11: once prepare has returned, its value is 0 exactly when both the SIGINT and the
\* SIGCHLD ignore dispositions are installed in the shell and -1 otherwise; finalize
\* changes no state and returns 0.
C11_SetupAndTeardown ==
    /\ [](sh.pc # "start" =>
            /\ sh.prepare_ret \in {0, -1}
            /\ sh.prepare_ret = 0 <=> BothIgnored)
    /\ [](sh.pc = "finalized" => sh.finalize_ret = 0)
    /\ [][FinalizeFrame]_vars

\* finalize has returned after a successful prepare and a dispatch
C11_Witness ==
    /\ sh.pc = "finalized"
    /\ sh.prepare_ret = 0
    /\ hist.returned

\* prepare has failed on its second sigaction call
C11_WitnessFailure ==
    /\ sh.pc = "setup_failed"
    /\ sh.prepare_ret = -1
    /\ sh.sigint = "ign"

----------------------------------------------------------------------------
(* C12: no pipe descriptor survives a pipeline dispatch *)

PipeHolders == Holders("pipeR") \cup Holders("pipeW")

\* both waits of the dispatch ended because the awaited child was gone
BothWaitsSawChildGone ==
    /\ Len(hist.waits) = 2
    /\ \A i \in 1..2 : hist.waits[i] \in {"OK", "ECHILD"}

\* C12 as stated: when establish_pipe returns, no process (shell, first child, second
\* child) holds a descriptor of either pipe end, duplicated copies included.
C12_NoPipeDescriptorSurvives ==
    ReturnedFrom("establish_pipe") => PipeHolders = {}

\* C12: when establish_pipe returns after both of its waits ended because the awaited
\* child had terminated, no process holds a descriptor of either pipe end, duplicated
\* copies on standard input and output included.
C12_NoPipeDescriptorSurvivesCompletedWaits ==
    (ReturnedFrom("establish_pipe") /\ BothWaitsSawChildGone) => PipeHolders = {}

\* both commands ran with the pipe on their standard streams, and establish_pipe
\* returned after both had terminated
C12_Witness ==
    /\ ReturnedFrom("establish_pipe")
    /\ BothWaitsSawChildGone
    /\ \E c \in ChildrenOf("first") : procs[c].execd = "ok" /\ procs[c].execOut = "pipeW"
    /\ \E c \in ChildrenOf("second") : procs[c].execd = "ok" /\ procs[c].execIn = "pipeR"

----------------------------------------------------------------------------
(* C13: the order of the events of a pipeline *)

InPipeline == hist.called = <<"establish_pipe">> /\ ~hist.returned

ShellHoldsPipe == 0 \in PipeHolders
ShellHoldsBothEnds == 0 \in Holders("pipeR") /\ 0 \in Holders("pipeW")

\* the events of a step, read off the state before and after it
PipeCreatedStep == ~ShellHoldsPipe /\ ShellHoldsPipe'
ForkStep(role) == \E c \in Pids : procs[c].pc = "free" /\ procs'[c].role = role
ShellClosesStep == ShellHoldsPipe /\ ~ShellHoldsPipe' /\ sh'.pc # "exited"
WaitStep == Len(hist'.waits) = Len(hist.waits) + 1

BothChildrenExist == ChildrenOf("first") # {} /\ ChildrenOf("second") # {}

PipelineOrder ==
    /\ PipeCreatedStep => (ChildrenOf("first") = {} /\ ChildrenOf("second") = {}
                           /\ hist.waits = << >>)
    /\ ForkStep("first") => (ShellHoldsBothEnds /\ ChildrenOf("second") = {}
                             /\ hist.waits = << >>)
    /\ ForkStep("second") => (ShellHoldsBothEnds /\ ChildrenOf("first") # {}
                              /\ hist.waits = << >>)
    /\ ShellClosesStep => (BothChildrenExist /\ hist.waits = << >> /\ ~ShellHoldsPipe')
    /\ (InPipeline /\ WaitStep) =>
          /\ ~ShellHoldsPipe
          /\ BothChildrenExist
          /\ frame.pid_first \in ChildrenOf("first")
          /\ frame.pid_second \in ChildrenOf("second")
          /\ WaitedPid = (IF hist.waits = << >> THEN frame.pid_first ELSE frame.pid_second)
          /\ Len(hist.waits) < 2

\* C13: in a pipeline the pipe is created, then the first child is forked, then the
\* second, then the shell closes both pipe descriptors, then it waits for the first
\* child and then for the second: the shell never waits while it holds a pipe
\* descriptor and never waits before both children exist.
C13_PipelineOrdering ==
    /\ [][PipelineOrder]_vars
    /\ [](sh.pc \in {"establish_pipe_wait_first", "establish_pipe_wait_second"} =>
             (~ShellHoldsPipe /\ BothChildrenExist))

\* a pipeline went through all six events and returned
C13_Witness ==
    /\ ReturnedFrom("establish_pipe")
    /\ hist.forks = 2
    /\ Len(hist.waits) = 2
    /\ BothChildrenExist
    /\ ~ShellHoldsPipe

----------------------------------------------------------------------------
(* C14: end-of-stream reaches the second command and the pipeline terminates *)

BothForked == InPipeline /\ hist.forks = 2

Reading(c) == procs[c].role = "second" /\ procs[c].pc = "run"

----------------------------------------------------------------------------
(* C15: the signal dispositions a command starts with *)

\* C15: after a successful prepare, a foreground, first-of-pipeline,
\* second-of-pipeline or redirected child calls execvp with SIGINT and SIGCHLD at
\* their defaults; a background child calls it with SIGCHLD at its default and SIGINT
\* still ignored.
C15_ChildSignalPolicyAtExec ==
    \A c \in Pids :
        (sh.prepare_ret = 0 /\ CalledExec(c)) =>
            /\ procs[c].execSigchld = "dfl"
            /\ procs[c].execSigint = (IF procs[c].role = "async" THEN "ign" ELSE "dfl")

\* both children of a pipeline have called execvp (a background child: C15_WitnessAsync)
C15_Witness ==
    /\ sh.prepare_ret = 0
    /\ \E c \in ChildrenOf("first") : procs[c].execd = "ok" /\ procs[c].execSigint = "dfl"
    /\ \E c \in ChildrenOf("second") : procs[c].execd = "ok" /\ procs[c].execSigint = "dfl"

C15_WitnessAsync ==
    /\ sh.prepare_ret = 0
    /\ \E c \in ChildrenOf("async") : procs[c].execd = "ok" /\ procs[c].execSigint = "ign"

----------------------------------------------------------------------------
(* C16: a child never runs the parent's code *)

\* where a child can be: in its set-up before execvp, replaced by the program, or gone
ChildSetupPcs == {"signals", "execute_child", "redirect", "open", "exec"}

Created == {c \in Pids : procs[c].pc # "free"}

ProcessesPerDispatch == IF hist.called = <<"establish_pipe">> THEN 2 ELSE 1

\* C16: whatever signal, open, dup2 and execvp return in a child, the child is
\* replaced by the program it execs or terminates, and never goes on to a later fork,
\* a waitpid or a return: a child whose execvp did not succeed is gone, one dispatch
\* creates at most two processes (one in foreground, background and redirect mode,
\* two in a pipeline, once the handler has returned), and process_arglist returns
\* once per call, in the shell.
C16_ChildNeverRunsParentCode ==
    /\ \A c \in Created :
          \/ procs[c].pc \in ChildSetupPcs /\ procs[c].execd = "no"
          \/ procs[c].pc = "run" /\ procs[c].execd = "ok"
          \/ procs[c].pc = "exited"
    /\ Cardinality(Created) = hist.forks
    /\ hist.forks <= ProcessesPerDispatch
    /\ hist.returned =>
          /\ sh.pc \in {"idle", "finalized"}
          /\ Len(hist.called) = 1
          /\ hist.forks = ProcessesPerDispatch

\* the first command of a pipeline could not be executed and its child is gone, the
\* second command runs, and establish_pipe has returned in the shell
C16_Witness ==
    /\ ReturnedFrom("establish_pipe")
    /\ \E c \in ChildrenOf("first") : procs[c].execd = "failed" /\ procs[c].pc = "exited"
    /\ \E c \in ChildrenOf("second") : procs[c].execd = "ok"
    /\ hist.forks = 2

----------------------------------------------------------------------------
(* C17: what process_arglist may change in the caller's vector *)

FirstMarker(v) ==
    IF \E i \in 1..Len(v) : v[i] \in {"|", ">"}
    THEN {(CHOOSE i \in 1..Len(v) :
              v[i] \in {"|", ">"} /\ \A j \in 1..(i - 1) : v[j] \notin {"|", ">"}) - 1}
    ELSE {}

\* the positions of the caller's vector that held a marker: the trailing "&" and the
\* first "|" or ">" of what is in front of it
MarkerPositions(v) ==
    (IF EndsInAmpersand(v) THEN {Len(v) - 1} ELSE {}) \cup FirstMarker(Command(v))

ChangedPositions == {i \in 0..Len(orig) : cmd_args[i] # (IF i < Len(orig) THEN orig[i + 1] ELSE NULL)}

\* C17: after process_arglist has returned, the caller's vector differs from the
\* vector that was passed only at positions that held a marker (the trailing "&" and
\* the first "|" or ">"); every command word and the redirect file name are unchanged.
C17_VectorFrame ==
    hist.returned => ChangedPositions \subseteq MarkerPositions(orig)

----------------------------------------------------------------------------
(* C18: no zombies *)

Terminated == {c \in Pids : procs[c].pc = "exited"}

\* C18: after a successful prepare, a child that has terminated is reaped: no
\* terminated child is left a zombie, whether or not the shell waits for it (with
\* SIGCHLD ignored in the shell the reaping happens at the child's termination, so
\* "eventually" is "at once").
C18_NoZombies ==
    sh.prepare_ret = 0 => \A c \in Terminated : ~procs[c].zombie

\* a background command has terminated after execute_async returned; nobody waits
\* for it and it is not a zombie
C18_Witness ==
    /\ sh.prepare_ret = 0
    /\ ReturnedFrom("execute_async")
    /\ hist.waits = << >>
    /\ \E c \in ChildrenOf("async") :
          /\ c \in Terminated
          /\ procs[c].execd = "ok"
          /\ ~procs[c].zombie

----------------------------------------------------------------------------
(* C19: every index stays inside the vector *)

\* C19: every index at which the vector is read or written lies in 0..n, and the
\* program name passed to execvp and the path passed to open are never the
\* terminator; this includes ">" at position 0 or 1 and the vector of a single "&".
C19_IndexBounds ==
    /\ ~hist.ub
    /\ \A c \in Created :
          /\ ~procs[c].ub
          /\ CalledExec(c) => procs[c].name # NULL
          /\ procs[c].pc \in {"exec", "run"} /\ procs[c].role = "redirected" =>
                procs[c].fname # NULL

----------------------------------------------------------------------------
(* C20: the shell's own signal dispositions *)

ShellDispositionsKept == sh.prepare_ret = 0 => (sh'.sigint = sh.sigint /\ sh'.sigchld = sh.sigchld)

\* C20: once prepare has returned 0, SIGINT and SIGCHLD are ignored in the shell in
\* every state, across every dispatch and every error path on which the shell keeps
\* running: no step changes them, the resets to the default happen in the children.
C20_ShellDispositionsStable ==
    /\ [](sh.prepare_ret = 0 => (sh.sigint = "ign" /\ sh.sigchld = "ign"))
    /\ [][ShellDispositionsKept]_vars

\* a foreground child reset both signals and ran its command; the shell, back from
\* execute_sync, ignores both
C20_Witness ==
    /\ ReturnedFrom("execute_sync")
    /\ BothIgnored
    /\ \E c \in ChildrenOf("sync") :
          procs[c].execd = "ok" /\ procs[c].sigint = "dfl" /\ procs[c].sigchld = "dfl"

====
